---- MODULE Spec2Model ----
(***************************************************************************)
(* A model of apix's crawl-and-extract pipeline (src/apix/explore.py):     *)
(* AsyncExplorer.explore() followed by AsyncExplorer.save_data().          *)
(*                                                                         *)
(* Python strings are modelled as sequences of tokens.  The tokens the     *)
(* code looks for ("/", ".html", "..", " ", "\n") are tokens of their own, *)
(* every other token is a word holding none of them, so str.replace,       *)
(* str.split, the "in" test and slicing are computed on the sequences the  *)
(* way Python computes them on characters.  None and '' (both falsy) are   *)
(* the empty sequence.                                                     *)
(***************************************************************************)
EXTENDS Integers, Sequences, FiniteSets, TLC

VARIABLES
    name,        \* AsyncExplorer.name
    version,     \* AsyncExplorer.version
    host_url,    \* AsyncExplorer.host_url
    base_path,   \* AsyncExplorer.base_path
    _queue,      \* AsyncExplorer._queue: the default asyncio.Queue() object
    _data,       \* AsyncExplorer._data: the default dict object, in insertion order
    kwargs,      \* the keyword arguments the caller passes to AsyncExplorer(...)
    pc,          \* position of the caller: call, new, seed, visit, explored, save,
                 \* saved, raised
    exc,         \* the exception propagating to the caller, "none" if none
    result,      \* explore(): the seed response, its content until pull_links has read it
    links,       \* explore(): the discovered links
    attempt,     \* _visit_links: 1 in the try body, 2 in the except handler
    idx,         \* _async_loop: number of links whose fetch this attempt has issued
    inflight,    \* _async_loop: positions of the links whose fetch has not returned
    yaml_data,   \* save_data(): the document built so far, in insertion order
    it,          \* save_data(): position of "for index in self._data"
    files,       \* the file system: APIs/<name>/<version>.yaml
    dirs,        \* the file system: the directories APIs/<name>
    requested,   \* the URLs the current explorer has requested
    crawl,       \* number of explorers constructed in this process
    saves,       \* number of save_data() calls made on the current explorer
    row,         \* scrape_content: the text_content() of a table row
    param_list   \* scrape_content: the param_list built from that row

vars == <<name, version, host_url, base_path, _queue, _data, kwargs, pc, exc,
          result, links, attempt, idx, inflight, yaml_data, it, files, dirs,
          requested, crawl, saves, row, param_list>>

(***************************************************************************)
(* Bounds of the model.                                                    *)
(***************************************************************************)
MaxLinks == 3      \* hyperlinks of a seed page
MaxProcLinks == 2  \* hyperlinks of a seed page when a process runs several crawls
MaxCrawls == 2     \* explorers constructed in one process
MaxSaves == 2      \* save_data() calls on one explorer
MaxPathLen == 4    \* tokens of a link path after apidoc/v2/
MaxRowLen == 5     \* tokens of the text of a table row

(***************************************************************************)
(* Python str operations on token sequences.                               *)
(***************************************************************************)
\* s[n:]
Slice(s, n) == IF n >= Len(s) THEN <<>> ELSE SubSeq(s, n + 1, Len(s))

\* s.startswith(pat)
StartsWith(s, pat) == Len(pat) <= Len(s) /\ SubSeq(s, 1, Len(pat)) = pat

\* pat in s
Contains(s, pat) ==
    \E i \in 1..(Len(s) - Len(pat) + 1) : SubSeq(s, i, i + Len(pat) - 1) = pat

\* s.replace(pat, rep): every non-overlapping occurrence, left to right
RECURSIVE Replace(_, _, _)
Replace(s, pat, rep) ==
    IF s = <<>> THEN <<>>
    ELSE IF StartsWith(s, pat) THEN rep \o Replace(Slice(s, Len(pat)), pat, rep)
    ELSE <<Head(s)>> \o Replace(Tail(s), pat, rep)

\* s.split(sep) for a one-token separator: always at least one segment
RECURSIVE SplitFrom(_, _, _)
SplitFrom(s, sep, cur) ==
    IF s = <<>> THEN <<cur>>
    ELSE IF Head(s) = sep THEN <<cur>> \o SplitFrom(Tail(s), sep, <<>>)
    ELSE SplitFrom(Tail(s), sep, Append(cur, Head(s)))

Split(s, sep) == SplitFrom(s, sep, <<>>)

\* sep.join(parts)
RECURSIVE Join(_, _)
Join(parts, sep) ==
    IF parts = <<>> THEN <<>>
    ELSE IF Len(parts) = 1 THEN parts[1]
    ELSE parts[1] \o sep \o Join(Tail(parts), sep)

\* [x for x in xs if x]
RECURSIVE NonEmpty(_)
NonEmpty(xs) ==
    IF xs = <<>> THEN <<>>
    ELSE IF Head(xs) = <<>> THEN NonEmpty(Tail(xs))
    ELSE <<Head(xs)>> \o NonEmpty(Tail(xs))

\* xs[:n]
Take(xs, n) == IF Len(xs) <= n THEN xs ELSE SubSeq(xs, 1, n)

(***************************************************************************)
(* The documentation site the explorer is pointed at: the configuration    *)
(* values, the hyperlinks a seed page may hold and the page behind each    *)
(* link.                                                                   *)
(***************************************************************************)
SP == " "
NL == "\n"
Indent == <<NL, SP, SP, SP, SP, SP, SP>>   \* the "\n      " artifact
Html == <<".html">>
Slash == <<"/">>
DotDotSlash == <<"..", "/">>
ApidocSlash == <<"apidoc", "/">>

Names == {<<"satellite6">>}
Versions == {<<>>, <<"6.3">>}            \* <<>>: no version given
Today == <<"2026-11-06">>                \* time.strftime('%Y-%m-%d')
HostUrls == {<<"http:", "/", "/", "host", "/">>}
BasePaths == {ApidocSlash, ApidocSlash \o <<"v2">> \o Html, <<"docs", "/">>}

HostsIndex == ApidocSlash \o <<"v2", "/", "hosts", "/", "index">> \o Html
HostsList == ApidocSlash \o <<"v2", "/", "hosts", "/", "list">> \o Html
UsersShow == ApidocSlash \o <<"v2", "/", "users", "/", "show">> \o Html
AboutIndex == ApidocSlash \o <<"v2", "/", "about", "/", "index">> \o Html
Section == ApidocSlash \o <<"v2", "/", "hosts">> \o Html
NoEntity == ApidocSlash \o <<"/", "index">> \o Html
Shallow == ApidocSlash \o <<"v2">> \o Html

\* One hyperlink as lxml's iterlinks() yields it: link[0].text and link[2].
RawLink(text, url) == [text |-> text, url |-> url]

RawLinks ==
    { RawLink(<<"hosts">>, HostsIndex),
      RawLink(<<"hosts">>, DotDotSlash \o HostsIndex),
      RawLink(<<>>, HostsIndex),
      RawLink(<<"list">>, HostsList),
      RawLink(<<"users">>, UsersShow),
      RawLink(<<"about">>, AboutIndex),
      RawLink(<<"section">>, Section),
      RawLink(<<"odd">>, NoEntity),
      RawLink(<<"v2">>, Shallow) }

ProcRawLinks ==
    { RawLink(<<"hosts">>, HostsIndex),
      RawLink(<<"users">>, UsersShow),
      RawLink(<<"about">>, AboutIndex) }

\* Sequences over S of length at most n.
SeqsUpTo(S, n) == UNION { [1..k -> S] : k \in 0..n }

\* Link paths of any shape under apidoc/v2/: the hyperlinks of a page are
\* whatever its author wrote.
PathTokens == {"pools", "index", ".html", "/"}
PoolPrefix == ApidocSlash \o <<"v2", "/">>
PoolLinks ==
    { RawLink(<<"pools">>, PoolPrefix \o t) : t \in SeqsUpTo(PathTokens, MaxPathLen) }
IsPoolPath(url) ==
    /\ StartsWith(url, PoolPrefix)
    /\ Len(url) <= Len(PoolPrefix) + MaxPathLen
    /\ \A i \in (Len(PoolPrefix) + 1)..Len(url) : url[i] \in PathTokens

\* What requests.get() may return for the seed page: a response that is
\* falsy (an HTTP error status), or a page with its hyperlinks in order.
NoResult == [ok |-> FALSE, content |-> <<>>]
Responses(raw, n) ==
    {NoResult} \cup { [ok |-> TRUE, content |-> s] : s \in SeqsUpTo(raw, n) }

\* A page: the text of its h1 elements and the text_content() of its
\* table/tbody/tr rows, in document order.
Page(h1, rows) == [h1 |-> h1, rows |-> rows]

Row3 == <<NL, SP, SP, "search", NL, SP, SP, "optional", NL, SP, SP,
          "filter", SP, "results", NL>>
Row1 == <<NL, SP, "id", NL>>

\* The content the host serves for a link path.
Site(url) ==
    CASE url = HostsIndex ->
            Page(<< <<"GET", SP, "/", "api", "/", "hosts">> \o Indent >>,
                 <<Row3, Row1>>)
      [] url = HostsList ->
            Page(<< <<"GET", SP, "/", "hosts">> >>, <<Row3>>)
      [] url = UsersShow ->
            Page(<< <<"GET", SP, "/", "api", "/", "users", "/", ":id">>,
                    <<"GET", SP, "/", "users", "/", ":id">> >>, <<Row1>>)
      [] url = AboutIndex -> Page(<<>>, <<>>)
      [] url = Section -> Page(<< <<"Hosts">> >>, <<>>)
      [] url = NoEntity -> Page(<< <<"GET", SP, "/", "api">> >>, <<>>)
      [] IsPoolPath(url) ->
            Page(<< <<"GET", SP, "/", "api", "/", "pools">> >>, <<Row1>>)
      [] OTHER -> Page(<<>>, <<>>)

(***************************************************************************)
(* AsyncExplorer's pure methods.                                           *)
(***************************************************************************)
\* pull_links_loop with the bug of a global duplicate check
RECURSIVE pull_links_loop_global(_, _, _, _, _)
pull_links_loop_global(g_links, bp, kept, last, hasLast) ==
    IF g_links = <<>> THEN kept
    ELSE LET link == Head(g_links)
             url == Replace(link.url, DotDotSlash, <<>>)
         IN IF /\ Contains(Slice(url, Len(bp)), Slash)
               /\ link.text # <<>>
               /\ ~(\E j \in 1..Len(kept) : kept[j][2] = url)
            THEN pull_links_loop_global(Tail(g_links), bp,
                                        Append(kept, <<link.text, url>>), url, TRUE)
            ELSE pull_links_loop_global(Tail(g_links), bp, kept, last, hasLast)

\* pull_links: the loop over what is left of g_links, with the locals
\* links and last.  "last" is None until a link is kept; a url is never
\* equal to None.
RECURSIVE pull_links_loop(_, _, _, _, _)
pull_links_loop(g_links, bp, kept, last, hasLast) ==
    IF g_links = <<>> THEN kept
    ELSE LET link == Head(g_links)
             url == Replace(link.url, DotDotSlash, <<>>)
         IN IF /\ Contains(Slice(url, Len(bp)), Slash)
               /\ link.text # <<>>
               /\ ~(hasLast /\ url = last)
            THEN pull_links_loop(Tail(g_links), bp,
                                 Append(kept, <<link.text, url>>), url, TRUE)
            ELSE pull_links_loop(Tail(g_links), bp, kept, last, hasLast)

pull_links(res, bp) == pull_links_loop(res.content, bp, <<>>, <<>>, FALSE)

\* scrape_param with the bug of a missing [:2]
scrape_param_all(param) ==
    Join(NonEmpty(Split(Replace(param, <<SP>>, <<>>), NL)), <<SP>>)

\* scrape_content: one entry of param_list
scrape_param(param) ==
    Join(Take(NonEmpty(Split(Replace(param, <<SP>>, <<>>), NL)), 2), <<SP>>)

scrape_content(content) ==
    [paths |-> [i \in 1..Len(content.h1) |-> Replace(content.h1[i], Indent, <<>>)],
     params |-> [i \in 1..Len(content.rows) |-> scrape_param(content.rows[i])]]

(***************************************************************************)
(* A Python dict as the sequence of its items in insertion order.          *)
(***************************************************************************)
HasKey(d, k) == \E i \in 1..Len(d) : d[i].key = k

\* d[k], for a key that is present
Get(d, k) == d[CHOOSE i \in 1..Len(d) : d[i].key = k].val

\* DictSet with the bug of a list of items: an insertion always goes last
DictSet_append(d, k, v) == Append(d, [key |-> k, val |-> v])

\* DictSet with the bug of an ordered map that moves a rewritten key last
DictSet_move_to_end(d, k, v) ==
    LET others == { i \in 1..Len(d) : d[i].key # k }
        f[n \in 0..Len(d)] ==
            IF n = 0 THEN <<>>
            ELSE IF n \in others THEN Append(f[n - 1], d[n]) ELSE f[n - 1]
    IN Append(f[Len(d)], [key |-> k, val |-> v])

\* d[k] = v: a present key keeps its position, a new one goes last
DictSet(d, k, v) ==
    IF HasKey(d, k)
    THEN [i \in 1..Len(d) |-> IF d[i].key = k THEN [key |-> k, val |-> v] ELSE d[i]]
    ELSE Append(d, [key |-> k, val |-> v])

\* link_params with the bug of "if" for "while": one item is taken
link_params_once(data, queue) ==
    IF queue = <<>> THEN data
    ELSE DictSet(data, Head(queue)[1][2], scrape_content(Head(queue)[2]))

\* _link_params: the drain loop, an item of the queue being (link, content)
\* and a link (text, url)
RECURSIVE link_params(_, _)
link_params(data, queue) ==
    IF queue = <<>> THEN data
    ELSE link_params(DictSet(data, Head(queue)[1][2], scrape_content(Head(queue)[2])),
                     Tail(queue))

\* What _data_to_yaml returns: raised (the IndexError of paths[0]), or the
\* pair (ent, res); (False, False) is the pair with the falsy ent <<>>.
NoRes == [action |-> <<>>, paths |-> <<>>, parameters |-> <<>>]
ReturnFalse == [raised |-> FALSE, ent |-> <<>>, res |-> NoRes]
RaiseIndexError == [raised |-> TRUE, ent |-> <<>>, res |-> NoRes]

\* "action = 'list' if action == 'index' else action"
normalize_action(action) == IF action = <<"index">> THEN <<"list">> ELSE action

\* _data_to_yaml with the bug of a missing "'/' not in paths[0]" check
_data_to_yaml_noslash(data, index) ==
    LET split_url == Split(index, "/")
        n == Len(split_url)
        action == normalize_action(Replace(split_url[n], Html, <<>>))
        paths == Get(data, index).paths
        params == Get(data, index).params
    IN IF n < 2 THEN ReturnFalse
       ELSE IF paths = <<>> THEN RaiseIndexError
       ELSE [raised |-> FALSE, ent |-> split_url[n - 1],
             res |-> [action |-> action, paths |-> paths, parameters |-> params]]

\* _data_to_yaml(index), self._data being data
_data_to_yaml(data, index) ==
    LET split_url == Split(index, "/")
        n == Len(split_url)
        action == normalize_action(Replace(split_url[n], Html, <<>>))
        paths == Get(data, index).paths
        params == Get(data, index).params
    IN IF n < 2 THEN ReturnFalse
       ELSE IF paths = <<>> THEN RaiseIndexError
       ELSE IF ~Contains(paths[1], Slash) THEN ReturnFalse
       ELSE [raised |-> FALSE, ent |-> split_url[n - 1],
             res |-> [action |-> action, paths |-> paths, parameters |-> params]]

\* save_data_entry with the bug of last-writer-wins on the action name
save_data_entry_overwrite(yd, ent, res) ==
    IF ent # <<>> /\ ~HasKey(yd, ent)
    THEN Append(yd, [key |-> ent, val |-> [methods |-> <<res>>]])
    ELSE IF ent # <<>>
    THEN LET ms == Get(yd, ent).methods
         IN IF \E j \in 1..Len(ms) : ms[j].action = res.action
            THEN DictSet(yd, ent, [methods |->
                   [j \in 1..Len(ms) |-> IF ms[j].action = res.action THEN res ELSE ms[j]]])
            ELSE DictSet(yd, ent, [methods |-> Append(ms, res)])
    ELSE yd

\* save_data_entry with the bug of an entity created with no method
save_data_entry_empty(yd, ent, res) ==
    IF ent # <<>> /\ ~HasKey(yd, ent)
    THEN Append(yd, [key |-> ent, val |-> [methods |-> <<>>]])
    ELSE IF ent # <<>>
    THEN DictSet(yd, ent, [methods |-> Append(Get(yd, ent).methods, res)])
    ELSE yd

\* save_data: the body of one iteration of "for index in self._data",
\* given what _data_to_yaml returned
save_data_entry(yd, ent, res) ==
    IF ent # <<>> /\ ~HasKey(yd, ent)
    THEN Append(yd, [key |-> ent, val |-> [methods |-> <<res>>]])
    ELSE IF ent # <<>>
    THEN DictSet(yd, ent, [methods |-> Append(Get(yd, ent).methods, res)])
    ELSE yd

\* yaml.dump(yaml_data): a YAML mapping, its keys written sorted, so the
\* file denotes the entity -> methods mapping whatever the insertion order.
Dump(yd) == { [ent |-> yd[i].key, methods |-> yd[i].val.methods] : i \in 1..Len(yd) }

\* save_data lines 81-87 as one computation: the loop from position i with
\* the document yd; raised when an iteration raises
RECURSIVE save_data_loop(_, _, _)
save_data_loop(data, i, yd) ==
    IF i > Len(data) THEN [raised |-> FALSE, doc |-> yd]
    ELSE LET r == _data_to_yaml(data, data[i].key)
         IN IF r.raised THEN [raised |-> TRUE, doc |-> yd]
            ELSE save_data_loop(data, i + 1, save_data_entry(yd, r.ent, r.res))

(***************************************************************************)
(* The file system under APIs/.                                            *)
(***************************************************************************)
\* __attrs_post_init__
post_init_version(v) == IF v = <<>> THEN Today ELSE v

FilePaths == Names \X { post_init_version(v) : v \in Versions }
Absent == [exists |-> FALSE, content |-> {}]
OldFile == [exists |-> TRUE, content |-> {[ent |-> <<"stale">>, methods |-> <<>>]}]

\* APIs/<name>/<version>.yaml
fpath(n, v) == <<n, v>>

\* write_file with the bug of a merge into the file that is there
write_file_merge(fs, p, yd) ==
    [fs EXCEPT ![p] = [exists |-> TRUE, content |-> fs[p].content \cup Dump(yd)]]

\* save_data lines 95-103: unlink, mkdir, touch, open('w+'), dump
write_file(fs, p, yd) == [fs EXCEPT ![p] = [exists |-> TRUE, content |-> Dump(yd)]]

(***************************************************************************)
(* A process about to construct its first explorer: from the command line  *)
(* (Main.explore) or with the attributes of the class as keywords.         *)
(***************************************************************************)
\* The keywords attrs generates for AsyncExplorer.__init__ (lines 22-27; a
\* private attribute is passed without its underscore).
InitKwargs == {"name", "version", "host_url", "base_path", "queue", "data"}

\* The keywords of a caller that leaves queue and data to their defaults.
PlainKwargs == {"name", "version", "host_url", "base_path"}

\* The keywords Main.explore passes.
CliKwargs == {"name", "version", "host_url", "base_path", "parser", "compact"}

Init ==
    /\ name \in Names
    /\ version \in Versions
    /\ host_url \in HostUrls
    /\ base_path \in BasePaths
    /\ kwargs \in {PlainKwargs, CliKwargs}
    /\ _queue = <<>>
    /\ _data = <<>>
    /\ pc = "call"
    /\ exc = "none"
    /\ result = NoResult
    /\ links = <<>>
    /\ attempt = 1
    /\ idx = 0
    /\ inflight = {}
    /\ yaml_data = <<>>
    /\ it = 1
    /\ files \in { [p \in FilePaths |-> f] : f \in {Absent, OldFile} }
    /\ dirs \in { d \in SUBSET Names : \A p \in FilePaths : files[p].exists => p[1] \in d }
    /\ requested = {}
    /\ crawl = 1
    /\ saves = 0
    /\ row = <<>>
    /\ param_list = <<>>

\* AsyncExplorer(**kwargs): the generated __init__ takes the keywords of
\* InitKwargs and no other (TypeError), then runs __attrs_post_init__.
Construct ==
    /\ pc = "call"
    /\ IF kwargs \subseteq InitKwargs
       THEN /\ version' = post_init_version(version)
            /\ pc' = "new"
            /\ exc' = "none"
       ELSE /\ pc' = "raised"
            /\ exc' = "TypeError"
            /\ UNCHANGED version
    /\ UNCHANGED <<row, param_list, kwargs, inflight, name, host_url, base_path, _queue,
                   _data, result, links, attempt, idx, yaml_data, it, files, dirs,
                   requested, crawl, saves>>

(***************************************************************************)
(* explore()                                                               *)
(***************************************************************************)
\* lines 133-135: the base path is not an apidoc path
ExploreReject ==
    /\ pc = "new"
    /\ ~Contains(base_path, ApidocSlash)
    /\ pc' = "explored"
    /\ UNCHANGED <<row, param_list, kwargs, inflight, name, version, host_url, base_path, _queue, _data, exc, result,
                   links, attempt, idx, yaml_data, it, files, dirs, requested,
                   crawl, saves>>

\* line 136: the request of the seed page
ExploreGet(raw, n) ==
    /\ pc = "new"
    /\ Contains(base_path, ApidocSlash)
    /\ \E resp \in Responses(raw, n) : result' = resp
    /\ requested' = requested \cup {host_url \o base_path}
    /\ pc' = "seed"
    /\ UNCHANGED <<row, param_list, kwargs, inflight, name, version, host_url, base_path, _queue, _data, exc, links,
                   attempt, idx, yaml_data, it, files, dirs, crawl, saves>>

\* lines 137-140: nothing useful at the seed page
ExploreNoSeed ==
    /\ pc = "seed"
    /\ ~result.ok
    /\ pc' = "explored"
    /\ UNCHANGED <<row, param_list, kwargs, inflight, name, version, host_url, base_path, _queue, _data, exc, result,
                   links, attempt, idx, yaml_data, it, files, dirs, requested,
                   crawl, saves>>

\* lines 141-143, and the entry of _visit_links
ExploreDiscover ==
    /\ pc = "seed"
    /\ result.ok
    /\ base_path' = Replace(base_path, Html, <<>>)
    /\ links' = pull_links(result, base_path')
    /\ result' = [result EXCEPT !.content = <<>>]
    /\ attempt' = 1
    /\ idx' = 0
    /\ inflight' = {}
    /\ pc' = "visit"
    /\ UNCHANGED <<row, param_list, kwargs, name, version, host_url, _queue, _data, exc, yaml_data, it,
                   files, dirs, requested, crawl, saves>>

\* visit_links_catches with the bug of a handler that also guards the retry
visit_links_catches_retry(e, att) == e = "ServerDisconnectedError"

\* _visit_links: the except clause is around the first run_until_complete only
visit_links_catches(e, att) == e = "ServerDisconnectedError" /\ att = 1

\* _async_loop line 41: the loop awaits the fetch of a link before it goes
\* on to the next link
may_issue(infl) == infl = {}

\* _async_loop: an iteration begins, session.get() is issued
FetchIssue ==
    /\ pc = "visit"
    /\ idx < Len(links)
    /\ may_issue(inflight)
    /\ idx' = idx + 1
    /\ inflight' = inflight \cup {idx + 1}
    /\ requested' = requested \cup {host_url \o links[idx + 1][2]}
    /\ UNCHANGED <<row, param_list, kwargs, name, version, host_url, base_path, _queue,
                   _data, pc, exc, result, links, attempt, yaml_data, it, files,
                   dirs, crawl, saves>>

\* _async_loop: a fetch returns the page, which is put on the queue
FetchOk ==
    /\ pc = "visit"
    /\ \E p \in inflight :
          /\ _queue' = Append(_queue, <<links[p], Site(links[p][2])>>)
          /\ inflight' = inflight \ {p}
    /\ UNCHANGED <<row, param_list, kwargs, name, version, host_url, base_path, _data,
                   pc, exc, result, links, attempt, idx, yaml_data, it, files,
                   dirs, requested, crawl, saves>>

\* FetchRaise with the bug of a retry that resumes at the link that failed
FetchRaise_resume(e) ==
    /\ pc = "visit"
    /\ inflight # {}
    /\ inflight' = {}
    /\ IF visit_links_catches(e, attempt)
       THEN /\ attempt' = 2
            /\ idx' = idx - 1
            /\ UNCHANGED <<pc, exc>>
       ELSE /\ pc' = "raised"
            /\ exc' = e
            /\ UNCHANGED <<attempt, idx>>
    /\ UNCHANGED <<row, param_list, kwargs, name, version, host_url, base_path, _queue,
                   _data, result, links, yaml_data, it, files, dirs, requested,
                   crawl, saves>>

\* _async_loop: a fetch raises e, which ends the batch attempt
FetchRaise(e) ==
    /\ pc = "visit"
    /\ inflight # {}
    /\ inflight' = {}
    /\ IF visit_links_catches(e, attempt)
       THEN /\ attempt' = 2
            /\ idx' = 0
            /\ UNCHANGED <<pc, exc>>
       ELSE /\ pc' = "raised"
            /\ exc' = e
            /\ UNCHANGED <<attempt, idx>>
    /\ UNCHANGED <<row, param_list, kwargs, name, version, host_url, base_path, _queue,
                   _data, result, links, yaml_data, it, files, dirs, requested,
                   crawl, saves>>

\* aiohttp reports a lost connection
FetchDisconnect == FetchRaise("ServerDisconnectedError")

\* async_timeout.timeout(60) expires
FetchTimeout == FetchRaise("TimeoutError")

\* line 145: _link_params, once the batch is through
LinkParams ==
    /\ pc = "visit"
    /\ idx = Len(links)
    /\ inflight = {}
    /\ _data' = link_params(_data, _queue)
    /\ _queue' = <<>>
    /\ pc' = "explored"
    /\ UNCHANGED <<row, param_list, kwargs, inflight, name, version, host_url, base_path, exc, result, links, attempt,
                   idx, yaml_data, it, files, dirs, requested, crawl, saves>>

(***************************************************************************)
(* save_data()                                                             *)
(***************************************************************************)
\* line 81
SaveBegin ==
    /\ pc \in {"explored", "saved"}
    /\ saves < MaxSaves
    /\ saves' = saves + 1
    /\ yaml_data' = <<>>
    /\ it' = 1
    /\ pc' = "save"
    /\ UNCHANGED <<row, param_list, kwargs, inflight, name, version, host_url, base_path, _queue, _data, exc, result,
                   links, attempt, idx, files, dirs, requested, crawl>>

\* lines 82-87: one iteration of the loop
SaveEntry ==
    /\ pc = "save"
    /\ it <= Len(_data)
    /\ LET r == _data_to_yaml(_data, _data[it].key)
       IN IF r.raised
          THEN /\ pc' = "raised"
               /\ exc' = "IndexError"
               /\ UNCHANGED <<yaml_data, it>>
          ELSE /\ yaml_data' = save_data_entry(yaml_data, r.ent, r.res)
               /\ it' = it + 1
               /\ UNCHANGED <<pc, exc>>
    /\ UNCHANGED <<row, param_list, kwargs, inflight, name, version, host_url, base_path, _queue, _data, result, links,
                   attempt, idx, files, dirs, requested, crawl, saves>>

\* lines 88-90: no data to be saved
SaveNothing ==
    /\ pc = "save"
    /\ it > Len(_data)
    /\ yaml_data = <<>>
    /\ pc' = "saved"
    /\ UNCHANGED <<row, param_list, kwargs, inflight, name, version, host_url, base_path, _queue, _data, exc, result,
                   links, attempt, idx, yaml_data, it, files, dirs, requested,
                   crawl, saves>>

\* lines 92-103
SaveWrite ==
    /\ pc = "save"
    /\ it > Len(_data)
    /\ yaml_data # <<>>
    /\ files' = write_file(files, fpath(name, version), yaml_data)
    /\ dirs' = dirs \cup {name}
    /\ pc' = "saved"
    /\ UNCHANGED <<row, param_list, kwargs, inflight, name, version, host_url, base_path, _queue, _data, exc, result,
                   links, attempt, idx, yaml_data, it, requested, crawl, saves>>

(***************************************************************************)
(* Another explorer is constructed in the same process, without queue or   *)
(* data arguments: lines 26-27 evaluate the defaults once, when the class  *)
(* is defined, so every such explorer holds the same queue and dict.       *)
(***************************************************************************)
NewExplorer ==
    /\ pc \in {"saved", "raised"}
    /\ crawl < MaxCrawls
    /\ crawl' = crawl + 1
    /\ name' \in Names
    /\ version' \in { post_init_version(v) : v \in Versions }
    /\ host_url' \in HostUrls
    /\ base_path' \in BasePaths
    /\ pc' = "new"
    /\ exc' = "none"
    /\ result' = NoResult
    /\ links' = <<>>
    /\ attempt' = 1
    /\ idx' = 0
    /\ yaml_data' = <<>>
    /\ it' = 1
    /\ requested' = {}
    /\ saves' = 0
    /\ kwargs' = PlainKwargs
    /\ inflight' = {}
    /\ UNCHANGED <<_queue, _data, files, dirs, row, param_list>>

\* One explorer in a fresh process: AsyncExplorer(...), explore(), then
\* save_data().
Next ==
    \/ Construct
    \/ ExploreReject
    \/ ExploreGet(RawLinks, MaxLinks)
    \/ ExploreNoSeed
    \/ ExploreDiscover
    \/ FetchIssue
    \/ FetchOk
    \/ FetchDisconnect
    \/ FetchTimeout
    \/ LinkParams
    \/ SaveBegin
    \/ SaveEntry
    \/ SaveNothing
    \/ SaveWrite

Spec == Init /\ [][Next]_vars

\* The same program pointed at a seed page with one hyperlink, of any path.
PathNext ==
    \/ Construct
    \/ ExploreReject
    \/ ExploreGet(PoolLinks, 1)
    \/ ExploreNoSeed
    \/ ExploreDiscover
    \/ FetchIssue
    \/ FetchOk
    \/ FetchDisconnect
    \/ FetchTimeout
    \/ LinkParams
    \/ SaveBegin
    \/ SaveEntry
    \/ SaveNothing
    \/ SaveWrite

PathSpec == Init /\ [][PathNext]_vars

(***************************************************************************)
(* scrape_content() on its own: a page with one table row, of any text.    *)
(***************************************************************************)
RowTokens == {NL, SP, "a", "b"}

ScrapeInit ==
    /\ row \in SeqsUpTo(RowTokens, MaxRowLen)
    /\ param_list = <<>>
    /\ pc = "scrape"
    /\ name \in Names
    /\ version \in { post_init_version(v) : v \in Versions }
    /\ host_url \in HostUrls
    /\ base_path = ApidocSlash
    /\ kwargs = PlainKwargs
    /\ _queue = <<>>
    /\ _data = <<>>
    /\ exc = "none"
    /\ result = NoResult
    /\ links = <<>>
    /\ attempt = 1
    /\ idx = 0
    /\ inflight = {}
    /\ yaml_data = <<>>
    /\ it = 1
    /\ files = [p \in FilePaths |-> Absent]
    /\ dirs = {}
    /\ requested = {}
    /\ crawl = 1
    /\ saves = 0

\* scrape_content(content), content being a page with no h1 and the one row
ScrapeRow ==
    /\ pc = "scrape"
    /\ param_list' = scrape_content(Page(<<>>, <<row>>)).params
    /\ pc' = "scraped"
    /\ UNCHANGED <<row, kwargs, inflight, name, version, host_url, base_path,
                   _queue, _data, exc, result, links, attempt, idx, yaml_data, it,
                   files, dirs, requested, crawl, saves>>

ScrapeNext == ScrapeRow

ScrapeSpec == ScrapeInit /\ [][ScrapeNext]_vars

\* Several explorers, one after the other, in one process.
ProcNext ==
    \/ Construct
    \/ ExploreReject
    \/ ExploreGet(ProcRawLinks, MaxProcLinks)
    \/ ExploreNoSeed
    \/ ExploreDiscover
    \/ FetchIssue
    \/ FetchOk
    \/ FetchDisconnect
    \/ FetchTimeout
    \/ LinkParams
    \/ SaveBegin
    \/ SaveEntry
    \/ SaveNothing
    \/ SaveWrite
    \/ NewExplorer

ProcSpec == Init /\ [][ProcNext]_vars

(***************************************************************************)
(* Properties.                                                             *)
(***************************************************************************)
\* The queue items of one batch that goes through: (link, content) per link.
Batch(ls) == [i \in 1..Len(ls) |-> <<ls[i], Site(ls[i][2])>>]

\* The map of a crawl of the links ls in which no connection is lost.
PlainData(ls) == link_params(<<>>, Batch(ls))

\* The document save_data builds from that map.
PlainDocument(ls) == save_data_loop(PlainData(ls), 1, <<>>)

SDE == "ServerDisconnectedError"

\* C1: a crawl whose first batch attempt lost the connection and whose retry
\* went through builds the map, the document (entities, method entries,
\* order) and the file of a crawl of the same links that lost no connection.
C1_RetryBuildsTheSameDocument ==
    attempt = 2 =>
        /\ (pc = "visit" /\ idx = Len(links) /\ inflight = {}) =>
                link_params(_data, _queue) = PlainData(links)
        /\ pc \in {"explored", "save", "saved"} => _data = PlainData(links)
        /\ pc = "saved" =>
                /\ ~PlainDocument(links).raised
                /\ yaml_data = PlainDocument(links).doc
                /\ yaml_data # <<>> =>
                       files[fpath(name, version)].content
                           = Dump(PlainDocument(links).doc)

\* C1: a saved crawl of at least two links that needed the retry
C1_Witness ==
    /\ pc = "saved"
    /\ attempt = 2
    /\ Len(links) >= 2
    /\ yaml_data # <<>>
    /\ files[fpath(name, version)].content = Dump(yaml_data)

\* C2: a lost connection during the retry is not caught: it propagates to
\* the caller of explore(), save_data() is not reached and the file system
\* is left as it was.
C2_SecondDisconnectPropagates ==
    /\ [](pc = "raised" /\ exc = SDE => attempt = 2 /\ saves = 0)
    /\ [][(pc = "visit" /\ attempt = 2 /\ FetchDisconnect)
              => (pc' = "raised" /\ exc' = SDE)]_vars
    /\ [][(exc' = SDE) => (files' = files /\ dirs' = dirs)]_vars
    /\ [][(pc = "raised" /\ exc = SDE)
              => (pc' \notin {"save", "saved"} /\ files' = files /\ dirs' = dirs)]_vars

\* C2: the retry lost the connection after it had enqueued a page
C2_Witness ==
    /\ pc = "raised"
    /\ exc = SDE
    /\ attempt = 2
    /\ idx >= 2
    /\ _queue # <<>>
    /\ saves = 0

\* C3: a fetch that exceeds its timeout fails alone: the batch goes on with
\* the next link and nothing propagates to the caller.
C3_TimeoutFailsOneFetch ==
    [][(pc = "visit" /\ FetchTimeout)
           => (pc' = "visit" /\ exc' = "none" /\ idx' = idx /\ attempt' = attempt)]_vars

\* C4: save_data() meets a record whose paths list is empty: it does not
\* raise, the record adds no method entry and no entity key, and the loop
\* goes on to the next record.
C4_EmptyPathsSkipped ==
    [][(pc = "save" /\ it <= Len(_data) /\ _data[it].val.paths = <<>>)
           => (pc' = "save" /\ exc' = "none" /\ it' = it + 1
                  /\ yaml_data' = yaml_data)]_vars

\* A record of the map passes the path-segment check (its path has two
\* segments or more) and the malformed-record check (its paths list is not
\* empty and its first path holds a "/").
Accepted(item) ==
    /\ Len(Split(item.key, "/")) >= 2
    /\ item.val.paths # <<>>
    /\ Contains(item.val.paths[1], Slash)

\* The entity segment of a record's path: the second-to-last one.
EntitySegment(item) ==
    LET segs == Split(item.key, "/") IN segs[Len(segs) - 1]

\* The number of method entries of a document.
RECURSIVE TotalMethods(_)
TotalMethods(yd) ==
    IF yd = <<>> THEN 0
    ELSE Len(Head(yd).val.methods) + TotalMethods(Tail(yd))

\* The records save_data() has been through: all of them once the loop is
\* over, those before position "it" while it runs.
Aggregated ==
    IF pc = "saved" THEN 1..Len(_data)
    ELSE IF pc = "save" THEN 1..(it - 1)
    ELSE {}

\* C5 as stated: the document holds one method entry per accepted record.
C5_OneEntryPerAcceptedRecord ==
    pc \in {"save", "saved"} =>
        TotalMethods(yaml_data)
            = Cardinality({ i \in Aggregated : Accepted(_data[i]) })

\* C5, amended: the document holds one method entry per accepted record
\* whose entity segment is not empty, in the methods list of that entity,
\* and nothing else.
C5_OneEntryPerNamedAcceptedRecord ==
    pc \in {"save", "saved"} =>
        LET named == { i \in Aggregated :
                         Accepted(_data[i]) /\ EntitySegment(_data[i]) # <<>> }
        IN /\ TotalMethods(yaml_data) = Cardinality(named)
           /\ \A i \in named :
                 /\ HasKey(yaml_data, EntitySegment(_data[i]))
                 /\ \E j \in 1..Len(Get(yaml_data, EntitySegment(_data[i])).methods) :
                        Get(yaml_data, EntitySegment(_data[i])).methods[j].paths
                            = _data[i].val.paths

\* C5: hosts/index.html and hosts/list.html are both aggregated, as two
\* entries named list of the entity hosts
C5_Witness ==
    /\ pc = "saved"
    /\ HasKey(_data, HostsIndex)
    /\ HasKey(_data, HostsList)
    /\ HasKey(yaml_data, <<"hosts">>)
    /\ LET ms == Get(yaml_data, <<"hosts">>).methods
       IN /\ Len(ms) = 2
          /\ ms[1].action = <<"list">>
          /\ ms[2].action = <<"list">>
          /\ ms[1].paths # ms[2].paths

\* C6: whenever the document holds an entity key, in the loop of
\* save_data() and in the file it writes, the entity has a method entry.
C6_NoEntityWithoutMethod ==
    /\ \A i \in 1..Len(yaml_data) : yaml_data[i].val.methods # <<>>
    /\ (pc = "saved" /\ yaml_data # <<>>) =>
           \A e \in files[fpath(name, version)].content : e.methods # <<>>

\* C6: the loop has been through a rejected record and holds an entity
C6_Witness ==
    /\ pc = "save"
    /\ yaml_data # <<>>
    /\ \E i \in Aggregated : ~Accepted(_data[i])

\* The hyperlinks of a seed page that are labelled and point below the
\* index level, with their normalized paths, in page order.
RECURSIVE Candidates(_, _)
Candidates(g_links, bp) ==
    IF g_links = <<>> THEN <<>>
    ELSE LET url == Replace(Head(g_links).url, DotDotSlash, <<>>)
             rest == Candidates(Tail(g_links), bp)
         IN IF Contains(Slice(url, Len(bp)), Slash) /\ Head(g_links).text # <<>>
            THEN <<<<Head(g_links).text, url>>>> \o rest
            ELSE rest

\* The members of c at the positions in K, in order.
RECURSIVE SubseqAt(_, _)
SubseqAt(c, K) ==
    IF c = <<>> THEN <<>>
    ELSE LET n == Len(c)
             front == SubseqAt(SubSeq(c, 1, n - 1), K)
         IN IF n \in K THEN Append(front, c[n]) ELSE front

\* The members of c whose path is not the path of the member right before.
WithoutAdjacentDuplicates(c) ==
    SubseqAt(c, { i \in 1..Len(c) : i = 1 \/ c[i][2] # c[i - 1][2] })

\* C7: discovery drops a candidate link exactly when its normalized path is
\* the path of the candidate right before it, which is then the most
\* recently kept one; a path that comes back later is kept again.
C7_AdjacentDuplicatesOnly ==
    [][(pc = "seed" /\ pc' = "visit") =>
          links' = WithoutAdjacentDuplicates(Candidates(result.content, base_path'))]_vars

\* C7: a path discovered twice, another one in between
C7_Witness ==
    /\ pc = "visit"
    /\ Len(links) = 3
    /\ links[1][2] = HostsIndex
    /\ links[2][2] = UsersShow
    /\ links[3][2] = HostsIndex

\* C8: explore() with a base path that holds no "apidoc/" has no effect: it
\* requests nothing, leaves the queue, the map and base_path as they are,
\* and the save_data() that follows writes no file.
C8_RejectedBasePathNoEffect ==
    /\ [][ExploreReject => UNCHANGED <<_queue, _data, base_path, requested,
                                       files, dirs>>]_vars
    /\ [][(~Contains(base_path, ApidocSlash) /\ pc # "new" /\ pc' # "new")
              => (files' = files /\ dirs' = dirs)]_vars

\* A crawl whose discovery yielded no link.
ZeroLinkCrawl == result.ok /\ links = <<>> /\ pc \in {"visit", "explored", "save", "saved"}

\* C9: in a crawl whose discovery yields no link, only the seed page is
\* requested, nothing is enqueued, and the save_data() that follows leaves
\* the file system as it is.
C9_EmptyCrawlNoOp ==
    /\ [](ZeroLinkCrawl => Cardinality(requested) = 1)
    /\ [][ZeroLinkCrawl => (Len(_queue') <= Len(_queue) /\ files' = files
                                /\ dirs' = dirs)]_vars

\* C10: save_data() leaves in APIs/<name>/<version>.yaml the dump of the
\* current document and nothing of what the file held before, and a second
\* save_data() leaves the file system as the first one left it.
C10_IdempotentOverwrite ==
    /\ []((pc = "saved" /\ yaml_data # <<>>) =>
             /\ files[fpath(name, version)].exists
             /\ name \in dirs
             /\ files[fpath(name, version)].content
                    = Dump(save_data_loop(_data, 1, <<>>).doc))
    /\ [][(pc = "save" /\ pc' = "saved" /\ saves >= 2)
              => (files' = files /\ dirs' = dirs)]_vars

\* C10: a second save_data() has written the document
C10_Witness ==
    /\ pc = "saved"
    /\ saves = 2
    /\ yaml_data # <<>>
    /\ files[fpath(name, version)] = [exists |-> TRUE, content |-> Dump(yaml_data)]

(***************************************************************************)
(* C11: entity and action names of an aggregated record.                   *)
(***************************************************************************)
\* The last segment of a record's path.
LastSegment(item) ==
    LET segs == Split(item.key, "/") IN segs[Len(segs)]

\* A file name less its .html extension.
StripExtension(seg) ==
    IF seg # <<>> /\ seg[Len(seg)] = ".html" THEN SubSeq(seg, 1, Len(seg) - 1)
    ELSE seg

\* The action name the path of a record stands for.
ActionOf(item) ==
    LET a == StripExtension(LastSegment(item))
    IN IF a = <<"index">> THEN <<"list">> ELSE a

\* C11: every aggregated record whose path has two segments or more is
\* found under the entity named by the second-to-last segment of its path,
\* with the action named by the last segment less its .html extension,
\* index being replaced by list.
C11_EntityAndActionFromPath ==
    pc \in {"save", "saved"} =>
        \A i \in Aggregated :
            (Accepted(_data[i]) /\ EntitySegment(_data[i]) # <<>>) =>
                /\ HasKey(yaml_data, EntitySegment(_data[i]))
                /\ \E j \in 1..Len(Get(yaml_data, EntitySegment(_data[i])).methods) :
                     LET m == Get(yaml_data, EntitySegment(_data[i])).methods[j]
                     IN /\ m.action = ActionOf(_data[i])
                        /\ m.paths = _data[i].val.paths

(***************************************************************************)
(* C12: a parameters entry holds the first two fragments of its row.       *)
(***************************************************************************)
\* The non-empty fragments of a row's text: the runs of characters other
\* than spaces between two newlines, in source order.
RECURSIVE FragmentsFrom(_, _)
FragmentsFrom(s, cur) ==
    LET done == IF cur = <<>> THEN <<>> ELSE <<cur>>
    IN IF s = <<>> THEN done
       ELSE IF Head(s) = NL THEN done \o FragmentsFrom(Tail(s), <<>>)
       ELSE IF Head(s) = SP THEN FragmentsFrom(Tail(s), cur)
       ELSE FragmentsFrom(Tail(s), Append(cur, Head(s)))

Fragments(s) == FragmentsFrom(s, <<>>)

\* C12: a row with n >= 1 non-empty fragments yields one parameters entry,
\* made of the first min(n, 2) fragments in source order with one space
\* between them.
C12_RowKeepsFirstTwoFragments ==
    pc = "scraped" =>
        LET f == Fragments(row)
        IN Len(f) >= 1 =>
             /\ Len(param_list) = 1
             /\ param_list[1] = IF Len(f) = 1 THEN f[1] ELSE f[1] \o <<SP>> \o f[2]

\* C12: a row with three non-empty fragments has been scraped
C12_Witness ==
    /\ pc = "scraped"
    /\ Len(Fragments(row)) = 3
    /\ param_list = << Fragments(row)[1] \o <<SP>> \o Fragments(row)[2] >>

(***************************************************************************)
(* C13: the batch is attempted twice at most.                              *)
(***************************************************************************)
\* C13: a crawl is on its first or second batch attempt; the second one is
\* started only by a lost connection during the first, over the same link
\* list and from its first link; a failure of the second one ends the
\* fetch stage with the error, and the second attempt never starts over.
C13_AtMostTwoBatchAttempts ==
    [][/\ attempt \in {1, 2}
       /\ attempt' \in {1, 2}
       /\ (attempt' # attempt) =>
             /\ attempt = 1
             /\ attempt' = 2
             /\ FetchDisconnect
             /\ pc' = "visit"
             /\ links' = links
             /\ idx' = 0
             /\ inflight' = {}
       /\ (pc = "visit" /\ attempt = 2) =>
             /\ idx' >= idx
             /\ links' = links
             /\ (FetchDisconnect \/ FetchTimeout) => pc' = "raised"]_vars

\* C13: the first attempt got the first link and lost the connection at a
\* later one; the second attempt has issued the fetch of the first link
C13_Witness ==
    /\ pc = "visit"
    /\ attempt = 2
    /\ Len(links) >= 2
    /\ Len(_queue) >= 1
    /\ idx = 1
    /\ inflight = {1}

(***************************************************************************)
(* C14: items of the work queue per link.                                  *)
(***************************************************************************)
\* C14: during the fetch stage the queue holds, of any (link, content)
\* item, no more copies than there are positions of the link list it is the
\* item of: one item at most per position.
C14_OneItemPerLinkPosition ==
    pc = "visit" =>
        \A k \in 1..Len(_queue) :
            Cardinality({ j \in 1..Len(_queue) : _queue[j] = _queue[k] })
                <= Cardinality({ p \in 1..Len(links) : Batch(links)[p] = _queue[k] })

(***************************************************************************)
(* C15: fetches in flight.                                                 *)
(***************************************************************************)
\* What the loop does: one fetch at a time, each item put on the queue
\* before the fetch of the next link is issued.
OneFetchAtATime ==
    /\ Cardinality(inflight) <= 1
    /\ pc = "visit" => Len(_queue) >= idx - Cardinality(inflight)

\* C15: the fetch stage keeps several fetches in flight: while a fetch is
\* in flight and a later link is left, the fetch of that link can be issued
\* without the earlier one having completed.
C15_SeveralFetchesInFlight ==
    (pc = "visit" /\ inflight # {} /\ idx < Len(links)) => ENABLED FetchIssue

(***************************************************************************)
(* C16: no fetch result is lost.                                           *)
(***************************************************************************)
\* C16: the map is written, and the fetch stage left, only by the drain,
\* which starts once every link has been fetched and nothing is in flight;
\* it leaves the queue empty and the map with a key for the path of every
\* link, holding the record scraped from that link's page.
C16_NoFetchResultLost ==
    [][(_data' # _data \/ (pc = "visit" /\ pc' = "explored")) =>
          /\ pc = "visit"
          /\ idx = Len(links)
          /\ inflight = {}
          /\ Len(_queue) >= Len(links)
          /\ pc' = "explored"
          /\ _queue' = <<>>
          /\ \A i \in 1..Len(links) :
                /\ HasKey(_data', links[i][2])
                /\ Get(_data', links[i][2]) = scrape_content(Site(links[i][2]))]_vars

\* C16: explore() has returned from a crawl of three links whose first
\* batch attempt was abandoned
C16_Witness ==
    /\ pc = "explored"
    /\ result.ok
    /\ Len(links) = 3
    /\ attempt = 2
    /\ _queue = <<>>
    /\ \A i \in 1..Len(links) : HasKey(_data, links[i][2])

(***************************************************************************)
(* C17: order, from the queue to the methods lists.                        *)
(***************************************************************************)
\* The paths of the items of a queue, in queue order.
QueuePaths(queue) == [j \in 1..Len(queue) |-> queue[j][1][2]]

\* The keys of a map, in its order.
Keys(d) == [j \in 1..Len(d) |-> d[j].key]

\* The first occurrence of each member of c, in order.
FirstOccurrences(c) ==
    SubseqAt(c, { i \in 1..Len(c) : \A j \in 1..(i - 1) : c[j] # c[i] })

\* While save_data() runs and once it is over, the methods list of every
\* entity of the document holds the aggregated records of that entity in
\* the order of the map.
MethodsInMapOrder ==
    pc \in {"save", "saved"} => \A e \in 1..Len(yaml_data) :
        LET ms == yaml_data[e].val.methods
            recs == SubseqAt(_data,
                       { i \in Aggregated : /\ Accepted(_data[i])
                                            /\ EntitySegment(_data[i]) = yaml_data[e].key })
        IN /\ Len(ms) = Len(recs)
           /\ \A j \in 1..Len(ms) : /\ ms[j].paths = recs[j].val.paths
                                    /\ ms[j].parameters = recs[j].val.params

\* C17: the drain takes the items in queue order, so that the keys of the
\* map are the keys it had followed by the paths of the queue, each at the
\* place of its first occurrence (a path inserted again keeps its place):
\* once explore() has returned they are the link paths in link order; and
\* the methods list of an entity holds its records in map order.
C17_OrderPreserved ==
    /\ (pc = "visit" /\ idx = Len(links) /\ inflight = {}) =>
           Keys(link_params(_data, _queue))
               = FirstOccurrences(Keys(_data) \o QueuePaths(_queue))
    /\ (pc \in {"explored", "save", "saved"} /\ result.ok) =>
           Keys(_data) = FirstOccurrences([i \in 1..Len(links) |-> links[i][2]])
    /\ MethodsInMapOrder

\* C17: a path came back later in the link list and was inserted again;
\* the document lists the two records of hosts in map order
C17_Witness ==
    /\ pc = "saved"
    /\ Len(links) = 3
    /\ links[1][2] = HostsIndex
    /\ links[2][2] = HostsList
    /\ links[3][2] = HostsIndex
    /\ Keys(_data) = <<HostsIndex, HostsList>>
    /\ HasKey(yaml_data, <<"hosts">>)
    /\ Get(yaml_data, <<"hosts">>).methods[1].paths = _data[1].val.paths
    /\ Get(yaml_data, <<"hosts">>).methods[2].paths = _data[2].val.paths

(***************************************************************************)
(* C18: a record whose first path holds no "/".                            *)
(***************************************************************************)
\* The record at position i of the map has paths, the first without a "/".
Slashless(i) ==
    /\ _data[i].val.paths # <<>>
    /\ ~Contains(_data[i].val.paths[1], Slash)

C19_ExplorersIsolated ==
    [][pc' = "new" => (_queue' = <<>> /\ _data' = <<>>)]_vars

(***************************************************************************)
(* C20: construction from the command line.                                *)
(***************************************************************************)
\* C20: the construction of the explorer with the keywords name, version,
\* host_url, base_path, parser and compact succeeds, leaving an explorer on
\* which explore() can be called.
C20_CliConstructionSucceeds ==
    [][(pc = "call" /\ kwargs = CliKwargs) => (pc' = "new" /\ exc' = "none")]_vars

====
